---- MODULE Spec2Model ----
(***************************************************************************)
(* A model of the HomeTab component of the cryptocanon mini app            *)
(* (src/src/components/ui/tabs/HomeTab.tsx, second version, lines          *)
(* 583-1343): the inline reference annotator and its per-render id         *)
(* bookkeeping, and the quote-share flow driven by DOM selection events.   *)
(*                                                                         *)
(* Strings are sequences of one-character strings.  Positions are 1-based: *)
(* the JavaScript index i is position i + 1.                               *)
(***************************************************************************)
EXTENDS Integers, Sequences, FiniteSets, TLC

VARIABLES
    \* ---- reference annotator / rendering ----
    content,              \* the static texts rendered: abstract, then paragraphs
    dom,                  \* per text, the nodes the current render produced
    prevDom,              \* the nodes of the render before the current one
    backlinks,            \* reference id -> href of its "Jump back" link
    refOccurrencesRef,    \* useRef: anchor target -> number of ids handed out
    firstRefOccurrenceRef,\* useRef: anchor target -> first id handed out
    renders,              \* number of renders since the component mounted
    \* ---- quote-share flow ----
    selection,            \* the browser selection (window.getSelection())
    showQuoteMenu,
    quoteText,
    quoteWarning,
    quoteMenuPosition,    \* Null, or where the menu is placed
    timers,               \* setTimeout(0) selection checks not yet run
    hasOpenUrl,           \* whether the host provides actions.openUrl
    pending,              \* the URLs of the openUrl calls not yet settled
    lastEvent,            \* the handler that ran last
    \* ---- browser local storage ----
    localStorage,         \* key -> stored string (Null / <<>>: no such key)
    \* ---- reading preferences (HomeTab) ----
    fontSize,
    spacing,              \* SpacingSettings, its numbers held in hundredths
    homePhase,            \* "unmounted", "ready", or "crashed" (a render threw)
    chosen,               \* the font size and spacing the user chose last
    \* ---- theme panel (ThemeSettings, one instance per toolbar) ----
    settings,             \* instance -> its mounted, theme, fontFamily, readingMode
    root,                 \* document.documentElement: data-theme and classList
    prefersDark,          \* matchMedia("(prefers-color-scheme: dark)").matches
    showFooterControls,
    actor,                \* the instances that applied theme and font last
    \* ---- App (auto-add variant and prompt variant) ----
    isSDKLoaded,
    added,
    hasAddMiniApp,        \* whether the host provides actions.addMiniApp
    addPending,           \* addMiniApp calls not yet settled
    addCalls,             \* addMiniApp calls made in this session
    showAddPrompt,
    isAddingMiniApp,
    appEvent,             \* the App effect or handler that ran last
    \* ---- server routes: share page and open-graph image ----
    query,                \* the "text" query parameter of the request
    pageQuote,            \* sanitizeQuote of the share page
    description,          \* the metadata description of the share page
    imageQuote,           \* sanitizeQuote of the image route
    displayQuote,         \* the text the image shows
    served,               \* the routes that have answered the request
    \* ---- table of contents (HomeTab) ----
    showToc,
    tocAnchor,
    activeSection,        \* the section the popover highlights
    tocEvent,             \* the event the table of contents saw last
    toggles               \* the last two handleToggleToc calls, oldest first

refVars == <<content, dom, prevDom, backlinks, refOccurrencesRef,
             firstRefOccurrenceRef, renders>>
quoteVars == <<selection, showQuoteMenu, quoteText, quoteWarning,
               quoteMenuPosition, timers, hasOpenUrl, pending, lastEvent>>
storeVars == <<localStorage>>
prefVars == <<fontSize, spacing, homePhase, chosen>>
themeVars == <<settings, root, prefersDark, showFooterControls, actor>>
appVars == <<isSDKLoaded, added, hasAddMiniApp, addPending, addCalls,
             showAddPrompt, isAddingMiniApp, appEvent>>
routeVars == <<query, pageQuote, description, imageQuote, displayQuote, served>>
tocVars == <<showToc, tocAnchor, activeSection, tocEvent, toggles>>
shellVars == <<storeVars, prefVars, themeVars, appVars, routeVars, tocVars>>
vars == <<refVars, quoteVars, shellVars>>

Null == "null"

(***************************************************************************)
(* Bounds of the model.                                                    *)
(***************************************************************************)
MaxLen == 5          \* longest text of the exhaustive annotator check
MaxTokens == 3       \* tokens in the content of the render check
MaxParas == 2        \* texts (abstract + paragraphs) in the render check
MaxRenders == 2      \* renders per mount
NumReferences == 2   \* entries of the reference list

(***************************************************************************)
(* Characters and numbers.                                                 *)
(***************************************************************************)
Alphabet == {"[", "]", "-", "0", "1", "a"}

IsDigit(c) == c \in {"0", "1", "2", "3", "4", "5", "6", "7", "8", "9"}

DigitVal(c) ==
    CASE c = "0" -> 0 [] c = "1" -> 1 [] c = "2" -> 2 [] c = "3" -> 3
      [] c = "4" -> 4 [] c = "5" -> 5 [] c = "6" -> 6 [] c = "7" -> 7
      [] c = "8" -> 8 [] c = "9" -> 9

DigitChar(d) ==
    CASE d = 0 -> "0" [] d = 1 -> "1" [] d = 2 -> "2" [] d = 3 -> "3"
      [] d = 4 -> "4" [] d = 5 -> "5" [] d = 6 -> "6" [] d = 7 -> "7"
      [] d = 8 -> "8" [] d = 9 -> "9"

\* Number(s) of a string of decimal digits: its value (leading zeros vanish).
RECURSIVE Number(_)
Number(s) ==
    IF s = <<>> THEN 0
    ELSE 10 * Number(SubSeq(s, 1, Len(s) - 1)) + DigitVal(s[Len(s)])

\* `${n}` of a non-negative integer: its canonical decimal numeral.
RECURSIVE NumToStr(_)
NumToStr(n) ==
    IF n < 10 THEN <<DigitChar(n)>>
    ELSE NumToStr(n \div 10) \o <<DigitChar(n % 10)>>

\* The position of the first "-" of s, 0 when there is none (label.includes,
\* label.split("-")[0]).
FirstDash(s) ==
    IF \E k \in 1..Len(s) : s[k] = "-"
    THEN CHOOSE k \in 1..Len(s) : s[k] = "-" /\ \A j \in 1..(k - 1) : s[j] # "-"
    ELSE 0

(***************************************************************************)
(* referencePattern = /\[([0-9]+(?:-[0-9]+)?)\]/g                          *)
(***************************************************************************)
\* [0-9]+ is greedy: the position after the longest run of digits from i.
RECURSIVE DigitsEnd(_, _)
DigitsEnd(text, i) ==
    IF i <= Len(text) /\ IsDigit(text[i]) THEN DigitsEnd(text, i + 1) ELSE i

\* The position after a match that starts at i, 0 when none starts there.
MatchEnd(text, i) ==
    IF i > Len(text) \/ text[i] # "[" THEN 0
    ELSE LET d == DigitsEnd(text, i + 1) IN
         IF d = i + 1 \/ d > Len(text) THEN 0
         ELSE IF text[d] = "]" THEN d + 1
         ELSE IF text[d] = "-"
              THEN LET e == DigitsEnd(text, d + 1) IN
                   IF e > d + 1 /\ e <= Len(text) /\ text[e] = "]"
                   THEN e + 1 ELSE 0
         ELSE 0

\* referencePattern.exec(text) with lastIndex = pos - 1: the leftmost match at
\* or after pos, as [index, lastIndex] (positions); NoMatch (JavaScript's null)
\* when there is none.
NoMatch == [index |-> 0, lastIndex |-> 0]

RECURSIVE Exec(_, _)
Exec(text, pos) ==
    IF pos > Len(text) THEN NoMatch
    ELSE IF MatchEnd(text, pos) # 0
         THEN [index |-> pos, lastIndex |-> MatchEnd(text, pos)]
         ELSE Exec(text, pos + 1)

(***************************************************************************)
(* renderContentWithReferences                                             *)
(***************************************************************************)
RefLinkPrefix == <<"r", "e", "f", "-", "l", "i", "n", "k", "-">>
ReferencePrefix == <<"r", "e", "f", "e", "r", "e", "n", "c", "e", "-">>

\* `ref-link-${anchorTarget}-${occurrenceCount}`
RefLinkId(anchorTarget, occurrenceCount) ==
    RefLinkPrefix \o NumToStr(anchorTarget) \o <<"-">> \o NumToStr(occurrenceCount)

\* `#reference-${anchorTarget}`
ReferenceHref(anchorTarget) == <<"#">> \o ReferencePrefix \o NumToStr(anchorTarget)

\* A slip: the anchor of a range is taken from its last number.
AnchorTargetLast(label) ==
    IF FirstDash(label) # 0
    THEN Number(SubSeq(label, FirstDash(label) + 1, Len(label)))
    ELSE Number(label)

\* label.includes("-") ? Number(label.split("-")[0]) : Number(label)
AnchorTarget(label) ==
    IF FirstDash(label) # 0
    THEN Number(SubSeq(label, 1, FirstDash(label) - 1))
    ELSE Number(label)

\* <span key={`text-${partIndex}`}>{text}</span>
SpanNode(partIndex, text) ==
    [kind |-> "span", key |-> partIndex, id |-> <<>>, href |-> <<>>, text |-> text]

\* <a key={`ref-${partIndex}`} id={uniqueId} href={...}>[{label}]</a>
AnchorNode(partIndex, uniqueId, anchorTarget, label) ==
    [kind |-> "a", key |-> partIndex, id |-> uniqueId,
     href |-> ReferenceHref(anchorTarget), text |-> <<"[">> \o label \o <<"]">>]

\* A slip: the counter is not read.
OccurrenceCountZero(occ, anchorTarget) == 0

\* refOccurrencesRef.current[anchorTarget] ?? 0
OccurrenceCount(occ, anchorTarget) ==
    IF anchorTarget \in DOMAIN occ THEN occ[anchorTarget] ELSE 0

\* refOccurrencesRef.current[anchorTarget] = occurrenceCount + 1
BumpOccurrence(occ, anchorTarget) ==
    [n \in DOMAIN occ \cup {anchorTarget} |->
        IF n = anchorTarget THEN OccurrenceCount(occ, anchorTarget) + 1 ELSE occ[n]]

\* if (!firstRefOccurrenceRef.current[t]) firstRefOccurrenceRef.current[t] = id
StoreFirst(first, anchorTarget, uniqueId) ==
    IF anchorTarget \in DOMAIN first THEN first
    ELSE [n \in DOMAIN first \cup {anchorTarget} |->
            IF n = anchorTarget THEN uniqueId ELSE first[n]]

\* A slip: an off-by-one in the test for a trailing literal.
PushTailOffByOne(text, pos, nodes, partIndex) ==
    IF pos < Len(text)
    THEN Append(nodes, SpanNode(partIndex, SubSeq(text, pos, Len(text))))
    ELSE nodes

\* The trailing literal: if (lastIndex < text.length) nodes.push(<span>...)
PushTail(text, pos, nodes, partIndex) ==
    IF pos <= Len(text)
    THEN Append(nodes, SpanNode(partIndex, SubSeq(text, pos, Len(text))))
    ELSE nodes

\* The while loop, from lastIndex = pos - 1 with the nodes pushed so far.
RECURSIVE ScanReferences(_, _, _, _, _, _)
ScanReferences(text, pos, nodes, partIndex, occ, first) ==
    LET match == Exec(text, pos) IN
    IF match = NoMatch
    THEN [nodes |-> PushTail(text, pos, nodes, partIndex), occ |-> occ, first |-> first]
    ELSE LET hasText == match.index > pos
             nodes1 == IF hasText
                       THEN Append(nodes, SpanNode(partIndex,
                                       SubSeq(text, pos, match.index - 1)))
                       ELSE nodes
             part1 == IF hasText THEN partIndex + 1 ELSE partIndex
             label == SubSeq(text, match.index + 1, match.lastIndex - 2)
             anchorTarget == AnchorTarget(label)
             occurrenceCount == OccurrenceCount(occ, anchorTarget)
             uniqueId == RefLinkId(anchorTarget, occurrenceCount)
         IN  ScanReferences(text, match.lastIndex,
                 Append(nodes1, AnchorNode(part1, uniqueId, anchorTarget, label)),
                 part1 + 1,
                 BumpOccurrence(occ, anchorTarget),
                 StoreFirst(first, anchorTarget, uniqueId))

renderContentWithReferences(text, occ, first) ==
    ScanReferences(text, 1, <<>>, 0, occ, first)

(***************************************************************************)
(* The state next to the annotator and the quote flow, as it is before     *)
(* anything has happened: an empty local storage, the useState initial     *)
(* values of HomeTab and of ThemeSettings, a document root without         *)
(* attributes.                                                             *)
(***************************************************************************)
\* localStorage.getItem of a key that is not stored returns null; the
\* handlers treat null and "" alike (both are falsy).  The value of
\* "spacingSettings" is a text (a sequence of characters), <<>> when absent.
NoStorage ==
    [fontSize |-> Null, spacingSettings |-> <<>>, theme |-> Null,
     fontFamily |-> Null, readingMode |-> Null,
     hasAttemptedAddMiniApp |-> Null, hasSeenAddPrompt |-> Null]

FontSizes == {"small", "medium", "large"}
Themes == {"light", "dark"}
FontFamilies == {"sans", "serif"}
ReadingModes == {"scroll", "page"}

\* useState<SpacingSettings>({ lineSpacing: 1.75, ... }), in hundredths.
DefaultSpacing ==
    [lineSpacing |-> 175, characterSpacing |-> 0, wordSpacing |-> 0, margins |-> 0]

DefaultFontSize == "medium"

\* The two ThemeSettings instances HomeTab renders: in the top toolbar, and
\* in the footer controls while these are shown.
Instances == {"top", "footer"}

\* useState initial values of a ThemeSettings instance.
InitialSettings ==
    [mounted |-> FALSE, theme |-> "light", fontFamily |-> "sans",
     readingMode |-> "scroll"]

\* No ThemeSettings code has touched the document root yet.
NoActor == [theme |-> Null, font |-> Null, event |-> Null]

\* The root element of a freshly loaded document.
BlankRoot == [dataTheme |-> Null, classList |-> {}]

\* No event has reached the table of contents yet.
NoEvent == [type |-> Null, detail |-> Null]

HomeTabInitial ==
    /\ showToc = FALSE
    /\ tocAnchor = "top"
    /\ activeSection = ""
    /\ tocEvent = NoEvent
    /\ toggles = <<>>
    /\ fontSize = DefaultFontSize
    /\ spacing = DefaultSpacing
    /\ homePhase = "unmounted"
    /\ showFooterControls = FALSE
    /\ settings = [i \in Instances |-> InitialSettings]
    /\ root = BlankRoot
    /\ actor = NoActor

\* App before the SDK is loaded.
AppInitial ==
    /\ isSDKLoaded = FALSE
    /\ addPending = 0
    /\ addCalls = 0
    /\ showAddPrompt = FALSE
    /\ isAddingMiniApp = FALSE
    /\ appEvent = "mount"

\* A request without a "text" parameter (searchParams.text is undefined,
\* searchParams.get("text") is null), not yet answered.
Missing == [kind |-> "missing", values |-> <<>>]

NotRequested ==
    /\ pageQuote = <<>>
    /\ description = <<>>
    /\ imageQuote = <<>>
    /\ displayQuote = <<>>
    /\ served = {}

ShellIdle ==
    /\ localStorage = NoStorage
    /\ HomeTabInitial
    /\ AppInitial
    /\ added = FALSE
    /\ hasAddMiniApp = TRUE
    /\ query = Missing
    /\ NotRequested
    /\ chosen = [fontSize |-> DefaultFontSize, spacing |-> DefaultSpacing]
    /\ prefersDark = FALSE

(***************************************************************************)
(* One render of HomeTab: the abstract and every paragraph go through      *)
(* renderContentWithReferences in document order, sharing the two refs;    *)
(* the reference list is built after them, from firstRefOccurrenceRef.     *)
(***************************************************************************)
EmptyMap == [n \in {} |-> 0]

RECURSIVE RenderTexts(_, _, _, _)
RenderTexts(texts, out, occ, first) ==
    IF texts = <<>> THEN [dom |-> out, occ |-> occ, first |-> first]
    ELSE LET r == renderContentWithReferences(Head(texts), occ, first) IN
         RenderTexts(Tail(texts), Append(out, r.nodes), r.occ, r.first)

References == 1..NumReferences

\* href={`#${firstRefOccurrenceRef.current[ref.id] || `ref-link-${ref.id}-0`}`}
BacklinkHref(first, id) ==
    <<"#">> \o (IF id \in DOMAIN first THEN first[id] ELSE RefLinkId(id, 0))

RenderFrom(occ, first) ==
    LET r == RenderTexts(content, <<>>, occ, first) IN
    /\ dom' = r.dom
    /\ refOccurrencesRef' = r.occ
    /\ firstRefOccurrenceRef' = r.first
    /\ backlinks' = [id \in References |-> BacklinkHref(r.first, id)]

\* A re-render (any state change of HomeTab): the refs keep their contents.
Render ==
    /\ renders >= 1
    /\ renders < MaxRenders
    /\ RenderFrom(refOccurrencesRef, firstRefOccurrenceRef)
    /\ prevDom' = dom
    /\ renders' = renders + 1
    /\ UNCHANGED <<content, quoteVars, shellVars>>

\* HomeTab mounts (App renders it once the SDK is loaded): fresh refs, and
\* the first render.
Mount ==
    /\ RenderFrom(EmptyMap, EmptyMap)
    /\ prevDom' = <<>>
    /\ renders' = 1
    /\ UNCHANGED <<content, quoteVars, shellVars>>

\* A collapsed selection (no text selected).
Collapsed == [collapsed |-> TRUE, text |-> <<>>, inContent |-> TRUE]

\* useState initial values of the quote menu; nothing selected, no timer, no
\* call of openUrl in flight.
QuoteIdle ==
    /\ selection = Collapsed
    /\ showQuoteMenu = FALSE
    /\ quoteText = <<>>
    /\ quoteWarning = Null
    /\ quoteMenuPosition = Null
    /\ timers = 0
    /\ hasOpenUrl = TRUE
    /\ pending = <<>>
    /\ lastEvent = "mount"

Unmounted ==
    /\ dom = <<>>
    /\ prevDom = <<>>
    /\ backlinks = [id \in References |-> <<>>]
    /\ refOccurrencesRef = EmptyMap
    /\ firstRefOccurrenceRef = EmptyMap
    /\ renders = 0

\* Every text over the alphabet, up to MaxLen characters.
Texts == UNION {[1..n -> Alphabet] : n \in 0..MaxLen}

\* Longer contents are put together from literal text and markers.
Tokens ==
    { <<"a">>,
      <<"[", "1", "]">>,
      <<"[", "0", "1", "]">>,
      <<"[", "2", "]">>,
      <<"[", "1", "-", "2", "]">> }

\* The concatenation of a sequence of sequences (by halves, to keep the
\* evaluation shallow on long sequences).
RECURSIVE Flatten(_)
Flatten(seqs) ==
    IF seqs = <<>> THEN <<>>
    ELSE IF Len(seqs) = 1 THEN seqs[1]
    ELSE LET half == Len(seqs) \div 2 IN
         Flatten(SubSeq(seqs, 1, half)) \o Flatten(SubSeq(seqs, half + 1, Len(seqs)))

\* The tokens ts dealt, in order, to MaxParas texts (a text may stay empty).
Deal(ts) ==
    { [p \in 1..MaxParas |->
          Flatten(SelectSeq([k \in 1..Len(ts) |-> IF cut[k] = p THEN ts[k] ELSE <<>>],
                            LAMBDA x : x # <<>>))] :
      cut \in {f \in [1..Len(ts) -> 1..MaxParas] :
                  \A i, j \in 1..Len(ts) : i <= j => f[i] <= f[j]} }

TokenContents ==
    UNION {Deal(ts) : ts \in UNION {[1..n -> Tokens] : n \in 0..MaxTokens}}

\* The component before it mounts, with its static content: one text over
\* the alphabet, or several texts put together from tokens.
InitRender ==
    /\ content \in {<<t>> : t \in Texts} \cup TokenContents
    /\ Unmounted
    /\ QuoteIdle
    /\ ShellIdle

NextRender == Mount \/ Render

SpecRender == InitRender /\ [][NextRender]_vars

(***************************************************************************)
(* Reference markers, stated on the text alone.                            *)
(***************************************************************************)
IsDigits(s) == s # <<>> /\ \A k \in 1..Len(s) : IsDigit(s[k])

IsRangeBody(s) ==
    \E k \in 2..(Len(s) - 1) :
        /\ s[k] = "-"
        /\ IsDigits(SubSeq(s, 1, k - 1))
        /\ IsDigits(SubSeq(s, k + 1, Len(s)))

\* <<i, j>>: text[i..j] is a marker [N] or [N-M].
Markers(text) ==
    {m \in (1..Len(text)) \X (1..Len(text)) :
        /\ m[1] < m[2]
        /\ text[m[1]] = "["
        /\ text[m[2]] = "]"
        /\ \/ IsDigits(SubSeq(text, m[1] + 1, m[2] - 1))
           \/ IsRangeBody(SubSeq(text, m[1] + 1, m[2] - 1))}

\* The k-th marker from the left.
NthMarker(text, k) ==
    CHOOSE m \in Markers(text) :
        Cardinality({x \in Markers(text) : x[1] < m[1]}) = k - 1

\* The numeral N of the marker body N or N-M, as written.
FirstNumeral(body) ==
    IF \E k \in 1..Len(body) : body[k] = "-"
    THEN SubSeq(body, 1, (CHOOSE k \in 1..Len(body) : body[k] = "-") - 1)
    ELSE body

\* A numeral without its leading zeros (one digit is always kept).
RECURSIVE Canonical(_)
Canonical(numeral) ==
    IF Len(numeral) > 1 /\ Head(numeral) = "0" THEN Canonical(Tail(numeral))
    ELSE numeral

IsAnchor(node) == node.kind = "a"
AnchorsOf(nodes) == SelectSeq(nodes, IsAnchor)

RECURSIVE VisibleText(_)
VisibleText(nodes) ==
    IF nodes = <<>> THEN <<>> ELSE Head(nodes).text \o VisibleText(Tail(nodes))

HashReference == <<"#">> \o ReferencePrefix

\* The anchors of text's render are its markers, in order, each showing the
\* marker as written and linking to '#reference-' followed by Shown(N).
AnchorsMatchMarkers(text, nodes, Shown(_)) ==
    LET anchors == AnchorsOf(nodes) IN
    /\ Len(anchors) = Cardinality(Markers(text))
    /\ \A k \in 1..Len(anchors) :
        LET m == NthMarker(text, k)
            body == SubSeq(text, m[1] + 1, m[2] - 1)
        IN  /\ anchors[k].text = SubSeq(text, m[1], m[2])
            /\ anchors[k].href = HashReference \o Shown(FirstNumeral(body))

AsWritten(numeral) == numeral

\* C1 (as stated): every marker [N] or [N-M] yields exactly one anchor, in
\* text order, whose visible text is the marker and whose href is
\* '#reference-N' with N exactly as written in the text.
C1_HrefAsWritten ==
    \A p \in 1..Len(dom) : AnchorsMatchMarkers(content[p], dom[p], AsWritten)

\* C1 (amended): every marker [N] or [N-M] yields exactly one anchor, in text
\* order, whose visible text is the marker as written and whose href is
\* '#reference-' followed by the value of N in canonical decimal, that is N
\* without its leading zeros.
C1_AnchorsMatchMarkers ==
    \A p \in 1..Len(dom) : AnchorsMatchMarkers(content[p], dom[p], Canonical)

\* C1 witness: a rendered text with at least two markers, one of them a range
\* and one written with a leading zero.
C1_Witness ==
    /\ renders >= 1
    /\ \E p \in 1..Len(dom) :
        /\ Cardinality(Markers(content[p])) >= 2
        /\ \E m \in Markers(content[p]) :
            IsRangeBody(SubSeq(content[p], m[1] + 1, m[2] - 1))
        /\ \E m \in Markers(content[p]) :
            LET n == FirstNumeral(SubSeq(content[p], m[1] + 1, m[2] - 1))
            IN  Canonical(n) # n

\* C3: the visible text of the segments, concatenated in order, is the input
\* text; a text without a marker renders as one literal segment equal to the
\* text, and the empty text as no segment.
C3_TextPreserved ==
    \A p \in 1..Len(dom) :
        /\ VisibleText(dom[p]) = content[p]
        /\ Markers(content[p]) = {} =>
            dom[p] = IF content[p] = <<>> THEN <<>>
                     ELSE <<SpanNode(0, content[p])>>

\* C3 witness: a rendered text with literal text before and after a marker.
C3_Witness ==
    /\ renders >= 1
    /\ \E p \in 1..Len(dom) :
        /\ Markers(content[p]) # {}
        /\ Len(dom[p]) = 3
        /\ dom[p][1].kind = "span"
        /\ dom[p][3].kind = "span"

\* Every anchor of the current render, in document order.
AllAnchors == AnchorsOf(Flatten(dom))

\* C2 (as stated): a later render returns, for every text, the same sequence
\* of segments, with the same anchor ids and hrefs, as the render before it.
C2_RerenderSameSegments == renders >= 2 => dom = prevDom

\* C4 (as stated): after any number of renders, the back-link of every
\* reference-list entry N that is cited in the displayed text targets the id
\* of the first anchor of reference N in the currently rendered text.
C4_BacklinkTargetsFirstAnchor ==
    renders >= 1 =>
        \A id \in References :
            LET cites == SelectSeq(AllAnchors, LAMBDA a : a.href = ReferenceHref(id))
            IN  cites # <<>> => backlinks[id] = <<"#">> \o Head(cites).id

(***************************************************************************)
(* The quote-share flow.                                                   *)
(***************************************************************************)
MIN_QUOTE_LENGTH == 16
MAX_QUOTE_LENGTH == 280

MaxTimers == 1       \* selection checks scheduled and not yet run
MaxPending == 1      \* openUrl calls not yet settled

MinLengthWarning == "Try selecting a little more text for better context."
TruncatedWarning == "Quote truncated to 280 characters."
UnsupportedWarning == "Opening links is not supported in this client."
FailedWarning == "Something went wrong opening Farcaster. Please try again."

AtSelection == "at-selection"

\* \s of the characters that occur in the model.
IsSpace(c) == c \in {" ", "\n", "\t"}

\* s.replace(/\s+/g, " "): every run of whitespace becomes one space.
ReplaceWhitespaceRuns(s) ==
    LET starts == SelectSeq([k \in 1..Len(s) |-> k],
                     LAMBDA k : ~IsSpace(s[k]) \/ k = 1 \/ ~IsSpace(s[k - 1]))
    IN  [j \in 1..Len(starts) |-> IF IsSpace(s[starts[j]]) THEN " " ELSE s[starts[j]]]

\* The first position at or after k, and the last at or before k, that holds
\* no whitespace (Len(s) + 1 and 0 when there is none).
RECURSIVE FirstSolid(_, _)
FirstSolid(s, k) ==
    IF k > Len(s) \/ ~IsSpace(s[k]) THEN k ELSE FirstSolid(s, k + 1)

RECURSIVE LastSolid(_, _)
LastSolid(s, k) ==
    IF k < 1 \/ ~IsSpace(s[k]) THEN k ELSE LastSolid(s, k - 1)

\* s.trim()
Trim(s) == SubSeq(s, FirstSolid(s, 1), LastSolid(s, Len(s)))

\* s.slice(0, n)
Slice(s, n) == SubSeq(s, 1, IF n < Len(s) THEN n ELSE Len(s))

\* A slip: the length test of handleSelection with the bounds included in
\* the wrong ranges.
QuoteOfWrongBounds(text) ==
    IF Len(text) >= MAX_QUOTE_LENGTH
    THEN [normalized |-> Slice(text, MAX_QUOTE_LENGTH), warning |-> TruncatedWarning]
    ELSE IF Len(text) <= MIN_QUOTE_LENGTH
         THEN [normalized |-> text, warning |-> MinLengthWarning]
         ELSE [normalized |-> text, warning |-> Null]

\* A slip: the over-long quote is flagged and not cut.
QuoteOfNotCut(text) ==
    IF Len(text) > MAX_QUOTE_LENGTH
    THEN [normalized |-> text, warning |-> TruncatedWarning]
    ELSE IF Len(text) < MIN_QUOTE_LENGTH
         THEN [normalized |-> text, warning |-> MinLengthWarning]
         ELSE [normalized |-> text, warning |-> Null]

\* handleSelection, lines 809-817: the quote kept and its warning.
QuoteOf(text) ==
    IF Len(text) > MAX_QUOTE_LENGTH
    THEN [normalized |-> Slice(text, MAX_QUOTE_LENGTH), warning |-> TruncatedWarning]
    ELSE IF Len(text) < MIN_QUOTE_LENGTH
         THEN [normalized |-> text, warning |-> MinLengthWarning]
         ELSE [normalized |-> text, warning |-> Null]

\* A slip: the stored quote is not cleared.
resetQuoteSelectionKeepsText ==
    /\ showQuoteMenu' = FALSE
    /\ quoteText' = quoteText
    /\ quoteWarning' = Null
    /\ quoteMenuPosition' = Null
    /\ selection' = Collapsed

\* resetQuoteSelection: the four setters and selection.removeAllRanges().
resetQuoteSelection ==
    /\ showQuoteMenu' = FALSE
    /\ quoteText' = <<>>
    /\ quoteWarning' = Null
    /\ quoteMenuPosition' = Null
    /\ selection' = Collapsed

\* handleSelection: returns early on a collapsed or blank selection and on
\* one outside the content area; else stores the quote and shows the menu.
handleSelection ==
    LET text == Trim(ReplaceWhitespaceRuns(selection.text)) IN
    IF selection.collapsed \/ text = <<>> \/ ~selection.inContent
    THEN UNCHANGED <<showQuoteMenu, quoteText, quoteWarning, quoteMenuPosition>>
    ELSE /\ quoteWarning' = QuoteOf(text).warning
         /\ quoteText' = QuoteOf(text).normalized
         /\ quoteMenuPosition' = AtSelection
         /\ showQuoteMenu' = TRUE

\* !selection || selection.isCollapsed || !selection.toString().trim()
NothingSelected(sel) == sel.collapsed \/ Trim(sel.text) = <<>>

(***************************************************************************)
(* handleQuoteShare: the compose URL.                                      *)
(***************************************************************************)
\* Imported constants, kept symbolic: one element each.
APP_URL == <<"<APP_URL>">>
paperMetadata == [author |-> <<"<author>">>, title |-> <<"<title>">>]

ComposeBase == "https://farcaster.xyz/~/compose"
SharePath ==
    <<"/", "s", "h", "a", "r", "e", "/", "q", "u", "o", "t", "e", "?",
      "t", "e", "x", "t", "=">>

\* encodeURIComponent of one character: whitespace and reserved characters
\* become %XX, unreserved characters stay.
EncodeChar(c) ==
    CASE c = " " -> <<"%", "2", "0">>
      [] c = "\n" -> <<"%", "0", "A">>
      [] c = "\t" -> <<"%", "0", "9">>
      [] c = "%" -> <<"%", "2", "5">>
      [] c = "&" -> <<"%", "2", "6">>
      [] c = "\"" -> <<"%", "2", "2">>
      [] OTHER -> <<c>>

encodeURIComponent(s) == Flatten([k \in 1..Len(s) |-> EncodeChar(s[k])])

\* A slip: the quote is put into the share link as it is.
ShareUrlRaw(q) == APP_URL \o SharePath \o q

\* `${APP_URL}/share/quote?text=${encodeURIComponent(quoteText)}`
ShareUrl(q) == APP_URL \o SharePath \o encodeURIComponent(q)

\* `"${quoteText}" <em dash> ${paperMetadata.author}, ${paperMetadata.title}`
\* (the em dash, U+2014, is written as one element)
CastText(q) ==
    <<"\"">> \o q \o <<"\"", " ", "<em-dash>", " ">> \o paperMetadata.author
             \o <<",", " ">> \o paperMetadata.title

\* URLSearchParams.set: the first pair of that name takes the value and the
\* other pairs of that name go; without such a pair, one is added.
SearchParamsSet(params, name, value) ==
    IF \E k \in 1..Len(params) : params[k].name = name
    THEN LET first == CHOOSE k \in 1..Len(params) :
                          /\ params[k].name = name
                          /\ \A j \in 1..(k - 1) : params[j].name # name
             kept == SelectSeq([k \in 1..Len(params) |-> [at |-> k, p |-> params[k]]],
                         LAMBDA x : x.p.name # name \/ x.at = first)
         IN  [k \in 1..Len(kept) |->
                 IF kept[k].at = first THEN [name |-> name, value |-> value]
                 ELSE kept[k].p]
    ELSE Append(params, [name |-> name, value |-> value])

\* URLSearchParams.append
SearchParamsAppend(params, name, value) ==
    Append(params, [name |-> name, value |-> value])

\* new URL("https://farcaster.xyz/~/compose") with text set and embeds[]
\* appended.
ComposeUrl(q) ==
    [base |-> ComposeBase,
     searchParams |->
        SearchParamsAppend(SearchParamsSet(<<>>, "text", CastText(q)),
                           "embeds[]", ShareUrl(q))]

(***************************************************************************)
(* Events.                                                                 *)
(***************************************************************************)
\* A slip: the share button is disabled for the empty quote only.
ShareDisabledWhenEmpty == quoteText = <<>>

\* disabled={!quoteText || quoteText.length < MIN_QUOTE_LENGTH}
ShareDisabled == quoteText = <<>> \/ Len(quoteText) < MIN_QUOTE_LENGTH

\* The quote menu is in the document: showQuoteMenu && quoteMenuPosition.
MenuRendered == showQuoteMenu /\ quoteMenuPosition # Null

\* A slip: the unsupported-client branch also dismisses the menu.
UnsupportedClientResets ==
    /\ quoteWarning' = UnsupportedWarning
    /\ showQuoteMenu' = FALSE
    /\ quoteMenuPosition' = Null
    /\ UNCHANGED <<quoteText, selection, pending>>

\* if (!actions?.openUrl) { setQuoteWarning(...); return; }
UnsupportedClient ==
    /\ quoteWarning' = UnsupportedWarning
    /\ UNCHANGED <<showQuoteMenu, quoteText, quoteMenuPosition, selection, pending>>

\* handleQuoteShare up to its await: the call of actions.openUrl.
handleQuoteShare ==
    IF quoteText = <<>>
    THEN UNCHANGED <<showQuoteMenu, quoteText, quoteWarning, quoteMenuPosition,
                     selection, pending>>
    ELSE IF ~hasOpenUrl
         THEN UnsupportedClient
         ELSE /\ pending' = Append(pending, ComposeUrl(quoteText))
              /\ UNCHANGED <<showQuoteMenu, quoteText, quoteWarning,
                             quoteMenuPosition, selection>>

\* A click on the share button of the menu.
ShareClick ==
    /\ MenuRendered
    /\ ~ShareDisabled
    /\ hasOpenUrl => Len(pending) < MaxPending
    /\ handleQuoteShare
    /\ lastEvent' = "share"
    /\ UNCHANGED <<timers, hasOpenUrl, refVars, shellVars>>

\* await actions.openUrl(...) resolves: resetQuoteSelection().
OpenUrlResolved ==
    /\ pending # <<>>
    /\ pending' = Tail(pending)
    /\ resetQuoteSelection
    /\ lastEvent' = "resolved"
    /\ UNCHANGED <<timers, hasOpenUrl, refVars, shellVars>>

\* A slip: the catch block also dismisses the quote.
OpenUrlRejectedResets ==
    /\ pending # <<>>
    /\ pending' = Tail(pending)
    /\ resetQuoteSelection
    /\ lastEvent' = "rejected"
    /\ UNCHANGED <<timers, hasOpenUrl, refVars, shellVars>>

\* await actions.openUrl(...) rejects: the catch block.
OpenUrlRejected ==
    /\ pending # <<>>
    /\ pending' = Tail(pending)
    /\ quoteWarning' = FailedWarning
    /\ lastEvent' = "rejected"
    /\ UNCHANGED <<showQuoteMenu, quoteText, quoteMenuPosition, selection,
                   timers, hasOpenUrl, refVars, shellVars>>

\* mouseup / touchend: scheduleSelectionCheck queues a setTimeout(0).
SelectionEnd ==
    /\ timers < MaxTimers
    /\ timers' = timers + 1
    /\ lastEvent' = "mouseup"
    /\ UNCHANGED <<selection, showQuoteMenu, quoteText, quoteWarning,
                   quoteMenuPosition, hasOpenUrl, pending, refVars, shellVars>>

\* The queued callback runs: it reads the selection of that moment.
SelectionCheck ==
    /\ timers > 0
    /\ timers' = timers - 1
    /\ IF NothingSelected(selection)
       THEN UNCHANGED <<showQuoteMenu, quoteText, quoteWarning, quoteMenuPosition>>
       ELSE handleSelection
    /\ lastEvent' = "selectioncheck"
    /\ UNCHANGED <<selection, hasOpenUrl, pending, refVars, shellVars>>

\* mousedown / touchstart: handleDocumentClick.  A target inside the menu
\* exists only while the menu is rendered.
DocumentClick(insideMenu) ==
    /\ insideMenu => MenuRendered
    /\ IF ~showQuoteMenu \/ insideMenu
       THEN UNCHANGED <<showQuoteMenu, quoteText, quoteWarning, quoteMenuPosition,
                        selection>>
       ELSE resetQuoteSelection
    /\ lastEvent' = "mousedown"
    /\ UNCHANGED <<timers, hasOpenUrl, pending, refVars, shellVars>>

\* The user changes the selection to sel; selectionchange runs
\* handleSelectionClear.
SelectionChange(sel) ==
    /\ IF NothingSelected(sel)
       THEN resetQuoteSelection
       ELSE /\ selection' = sel
            /\ UNCHANGED <<showQuoteMenu, quoteText, quoteWarning, quoteMenuPosition>>
    /\ lastEvent' = "selectionchange"
    /\ UNCHANGED <<timers, hasOpenUrl, pending, refVars, shellVars>>

(***************************************************************************)
(* The selections the user makes: a word, optionally a second word after   *)
(* a run of whitespace, optionally padded with whitespace, with lengths    *)
(* next to the two bounds.                                                 *)
(***************************************************************************)
Word(n) == [k \in 1..n |-> "a"]
WordLengths == {0, MIN_QUOTE_LENGTH - 1, MAX_QUOTE_LENGTH - 1, MAX_QUOTE_LENGTH}
Gaps == {<<>>, <<" ", "\n">>}
Pads == {<<>>, <<"\t">>}

SelectionTexts ==
    {pad \o Word(n) \o gap \o Word(m) \o pad :
        n \in WordLengths, m \in {0, 1}, gap \in Gaps, pad \in Pads} \ {<<>>}

\* Outside the content area (the quote menu's own text) the handlers never
\* look at more than whether the selection is blank.
OutsideTexts == {Word(n) : n \in WordLengths \ {0}} \cup {<<"\t">>}

Selections ==
    {Collapsed}
    \cup {[collapsed |-> FALSE, text |-> t, inContent |-> TRUE] : t \in SelectionTexts}
    \cup {[collapsed |-> FALSE, text |-> t, inContent |-> FALSE] : t \in OutsideTexts}

InitQuote ==
    /\ content = <<>>
    /\ Unmounted
    /\ selection = Collapsed
    /\ showQuoteMenu = FALSE
    /\ quoteText = <<>>
    /\ quoteWarning = Null
    /\ quoteMenuPosition = Null
    /\ timers = 0
    /\ hasOpenUrl \in BOOLEAN
    /\ pending = <<>>
    /\ lastEvent = "mount"
    /\ ShellIdle

NextQuote ==
    \/ \E sel \in Selections : SelectionChange(sel)
    \/ SelectionEnd
    \/ SelectionCheck
    \/ \E insideMenu \in BOOLEAN : DocumentClick(insideMenu)
    \/ ShareClick
    \/ OpenUrlResolved
    \/ OpenUrlRejected

SpecQuote == InitQuote /\ [][NextQuote]_vars

(***************************************************************************)
(* Properties of the quote-share flow.                                     *)
(***************************************************************************)
\* The whitespace-normalized text of the current selection.
NormalizedSelection == Trim(ReplaceWhitespaceRuns(selection.text))

\* The selection check has just run on a selection inside the content area.
CheckedInContent ==
    lastEvent = "selectioncheck" /\ ~selection.collapsed /\ selection.inContent

\* The values of the query parameter `name` of url, in order.
ParamValues(url, name) ==
    LET hits == SelectSeq(url.searchParams, LAMBDA p : p.name = name)
    IN  [k \in 1..Len(hits) |-> hits[k].value]

\* The fixed part of a cast text around the quote: its opening quotation
\* mark, and what follows the quote.
CastOpening == <<"\"">>
CastClosing == <<"\"", " ", "<em-dash>", " ", "<author>", ",", " ", "<title>">>

\* The length of the quote inside the text parameter of a compose URL.
SharedQuoteLen(url) ==
    Len(ParamValues(url, "text")[1]) - Len(CastOpening) - Len(CastClosing)

\* C5: once the selection check has run on a selection inside the content
\* area, a normalized text of 1 to 15 characters has the menu shown with the
\* minimum-length warning, and one of 16 to 280 characters has the menu shown
\* with no warning.
C5_SelectionWarning ==
    CheckedInContent =>
        LET n == Len(NormalizedSelection) IN
        /\ (0 < n /\ n < 16) => (MenuRendered /\ quoteWarning = MinLengthWarning)
        /\ (16 <= n /\ n <= 280) => (MenuRendered /\ quoteWarning = Null)

\* C5 witness: the check has run on a selection of 15 normalized characters
\* and the menu shows the minimum-length warning.
C5_Witness ==
    /\ CheckedInContent
    /\ Len(NormalizedSelection) = 15
    /\ MenuRendered
    /\ quoteWarning = MinLengthWarning

\* C6: openUrl is never called for a quote shorter than 16 characters: every
\* call in flight carries a quote of at least 16 characters, and the share
\* handler has only ever run on a stored quote of at least 16 characters.
C6_NoShortShare ==
    /\ \A k \in 1..Len(pending) : SharedQuoteLen(pending[k]) >= 16
    /\ lastEvent = "share" => Len(quoteText) >= 16

\* C6 witness: a short quote is stored and its menu shown (the share control
\* is disabled) while an earlier share is still in flight.
C6_Witness ==
    /\ pending # <<>>
    /\ MenuRendered
    /\ 0 < Len(quoteText)
    /\ Len(quoteText) < 16

\* C7: the stored quote never exceeds 280 characters; a selection whose
\* normalized text is longer is stored as its first 280 characters with the
\* truncation warning; every URL passed to openUrl carries a quote of at most
\* 280 characters.
C7_MaxLength ==
    /\ Len(quoteText) <= 280
    /\ (CheckedInContent /\ Len(NormalizedSelection) > 280) =>
            /\ quoteText = SubSeq(NormalizedSelection, 1, 280)
            /\ quoteWarning = TruncatedWarning
    /\ \A k \in 1..Len(pending) : SharedQuoteLen(pending[k]) <= 280

\* C7 witness: a selection longer than 280 characters has been checked, and a
\* quote of 280 characters is in flight.
C7_Witness ==
    /\ CheckedInContent
    /\ Len(NormalizedSelection) > 280
    /\ Len(quoteText) = 280
    /\ \E k \in 1..Len(pending) : SharedQuoteLen(pending[k]) = 280

\* C8 (as stated): the stored quote holds no whitespace other than single
\* spaces, no two whitespace characters in a row, and neither begins nor
\* ends with whitespace.
C8_QuoteNormalized ==
    \A k \in 1..Len(quoteText) :
        IsSpace(quoteText[k]) =>
            /\ quoteText[k] = " "
            /\ k # 1
            /\ k # Len(quoteText)
            /\ ~IsSpace(quoteText[k + 1])

\* %XX of the characters that occur in the model.
HexChar(h, l) ==
    CASE h = "2" /\ l = "0" -> " "
      [] h = "0" /\ l = "A" -> "\n"
      [] h = "0" /\ l = "9" -> "\t"
      [] h = "2" /\ l = "5" -> "%"
      [] h = "2" /\ l = "6" -> "&"
      [] h = "2" /\ l = "2" -> "\""
      [] OTHER -> "?"

\* decodeURIComponent: every %XX becomes its character.
UriDecoded(enc) ==
    LET heads == SelectSeq([k \in 1..Len(enc) |-> k],
                    LAMBDA k : /\ ~(k > 1 /\ enc[k - 1] = "%")
                               /\ ~(k > 2 /\ enc[k - 2] = "%"))
    IN  [j \in 1..Len(heads) |->
            IF enc[heads[j]] = "%"
            THEN HexChar(enc[heads[j] + 1], enc[heads[j] + 2])
            ELSE enc[heads[j]]]

\* No character of enc needs escaping in a URI component.
UriSafe(enc) ==
    \A k \in 1..Len(enc) : ~IsSpace(enc[k]) /\ enc[k] \notin {"&", "\"", "#", "?", "="}

\* url is the compose URL of quote q: text is '"q" <em dash> <author>,
\* <title>' and the one embeds[] is '<APP_URL>/share/quote?text=' followed by
\* the URI-component encoding of q.
IsComposeUrlOf(url, q) ==
    /\ url.base = "https://farcaster.xyz/~/compose"
    /\ ParamValues(url, "text") = <<CastOpening \o q \o CastClosing>>
    /\ Len(ParamValues(url, "embeds[]")) = 1
    /\ LET embed == ParamValues(url, "embeds[]")[1]
           head == <<"<APP_URL>">> \o SharePath
           enc == SubSeq(embed, Len(head) + 1, Len(embed))
       IN  /\ SubSeq(embed, 1, Len(head)) = head
           /\ UriSafe(enc)
           /\ UriDecoded(enc) = q

C10_UnsupportedClient ==
    [][(lastEvent' = "share" /\ ~hasOpenUrl) =>
            /\ pending' = pending
            /\ quoteWarning' = UnsupportedWarning
            /\ UNCHANGED <<quoteText, showQuoteMenu, quoteMenuPosition, selection>>]_vars

\* C10 witness: after a share click on a host without openUrl the menu is
\* still shown, with the unsupported-client warning.
C10_Witness ==
    /\ lastEvent = "share"
    /\ ~hasOpenUrl
    /\ quoteWarning = UnsupportedWarning
    /\ MenuRendered
    /\ quoteText # <<>>
    /\ ~selection.collapsed

\* C11: a rejected openUrl call sets the failure warning, leaves the stored
\* quote, the menu, its position and the browser selection as they were and
\* starts no new call; a resolved call hides the menu and clears the quote
\* text, the warning and the position; a call of openUrl is only ever
\* started by a click on the share button.
C11_ShareSettled ==
    [][/\ lastEvent' = "rejected" =>
              /\ quoteWarning' = FailedWarning
              /\ UNCHANGED <<showQuoteMenu, quoteText, quoteMenuPosition, selection>>
              /\ pending' = Tail(pending)
       /\ lastEvent' = "resolved" =>
              /\ showQuoteMenu' = FALSE
              /\ quoteText' = <<>>
              /\ quoteWarning' = Null
              /\ quoteMenuPosition' = Null
              /\ pending' = Tail(pending)
       /\ Len(pending') > Len(pending) => lastEvent' = "share"]_vars

\* C11 witness: openUrl has rejected; the menu still shows the quote, with
\* the failure warning, and no call is in flight.
C11_Witness ==
    /\ lastEvent = "rejected"
    /\ quoteWarning = FailedWarning
    /\ MenuRendered
    /\ Len(quoteText) >= MIN_QUOTE_LENGTH
    /\ pending = <<>>

(***************************************************************************)
(* Reading preferences (HomeTab) and the theme panel (ThemeSettings).      *)
(* Numbers of the spacing record are held in hundredths: 1.75 is 175.      *)
(***************************************************************************)
\* if (saved) ...: null and the empty string are falsy.
Truthy(v) == v # Null /\ v # ""

\* The keys of SpacingSettings, in the order the object literal lists them
\* (the spread in ThemeSettings.handleSpacingChange keeps that order).
SpacingKeys == <<"lineSpacing", "characterSpacing", "wordSpacing", "margins">>

KeyText(key) ==
    CASE key = "lineSpacing" ->
             <<"l", "i", "n", "e", "S", "p", "a", "c", "i", "n", "g">>
      [] key = "characterSpacing" ->
             <<"c", "h", "a", "r", "a", "c", "t", "e", "r",
               "S", "p", "a", "c", "i", "n", "g">>
      [] key = "wordSpacing" ->
             <<"w", "o", "r", "d", "S", "p", "a", "c", "i", "n", "g">>
      [] key = "margins" ->
             <<"m", "a", "r", "g", "i", "n", "s">>

\* A slip: the sign of a number is not written.
NumberToStringUnsigned(h) ==
    LET a == IF h < 0 THEN -h ELSE h IN
    NumToStr(a \div 100)
    \o (IF a % 100 = 0 THEN <<>>
        ELSE <<".", DigitChar((a % 100) \div 10)>>
             \o (IF a % 10 = 0 THEN <<>> ELSE <<DigitChar(a % 10)>>))

\* The text JSON.stringify writes for a number: sign, integer part, and the
\* fraction without trailing zeros.
NumberToString(h) ==
    LET a == IF h < 0 THEN -h ELSE h IN
    (IF h < 0 THEN <<"-">> ELSE <<>>)
    \o NumToStr(a \div 100)
    \o (IF a % 100 = 0 THEN <<>>
        ELSE <<".", DigitChar((a % 100) \div 10)>>
             \o (IF a % 10 = 0 THEN <<>> ELSE <<DigitChar(a % 10)>>))

JsonMember(key, h) == <<"\"">> \o KeyText(key) \o <<"\"", ":">> \o NumberToString(h)

\* JSON.stringify(newSpacing)
JSONstringify(sp) ==
    <<"{">>
    \o JsonMember(SpacingKeys[1], sp[SpacingKeys[1]]) \o <<",">>
    \o JsonMember(SpacingKeys[2], sp[SpacingKeys[2]]) \o <<",">>
    \o JsonMember(SpacingKeys[3], sp[SpacingKeys[3]]) \o <<",">>
    \o JsonMember(SpacingKeys[4], sp[SpacingKeys[4]])
    \o <<"}">>

\* A JSON number at position i: an optional "-", an integer part without a
\* leading zero, an optional fraction (of at most two digits in this model).
ParseNumber(text, i) ==
    LET neg == i <= Len(text) /\ text[i] = "-"
        s == IF neg THEN i + 1 ELSE i
        e == DigitsEnd(text, s)
        hasFrac == e <= Len(text) /\ text[e] = "."
        f == IF hasFrac THEN DigitsEnd(text, e + 1) ELSE e
        frac == IF hasFrac THEN SubSeq(text, e + 1, f - 1) ELSE <<>>
        mag == 100 * Number(SubSeq(text, s, e - 1))
               + (IF Len(frac) = 1 THEN 10 * Number(frac) ELSE Number(frac))
    IN  [ok |-> /\ e > s
                /\ (e > s + 1 => text[s] # "0")
                /\ (hasFrac => Len(frac) \in {1, 2}),
         value |-> IF neg THEN 0 - mag ELSE mag,
         next |-> f]

\* The member "key":number at position i.
ParseMember(text, i, key) ==
    LET name == <<"\"">> \o KeyText(key) \o <<"\"", ":">>
        j == i + Len(name)
        num == ParseNumber(text, j)
    IN  IF j - 1 <= Len(text) /\ SubSeq(text, i, j - 1) = name
        THEN num
        ELSE [ok |-> FALSE, value |-> 0, next |-> i]

\* JSON.parse(savedSpacing) of a text that is either the JSON of a spacing
\* record or no JSON at all: the record, or ok = FALSE when JSON.parse throws.
JSONparse(text) ==
    LET m1 == ParseMember(text, 2, SpacingKeys[1])
        m2 == ParseMember(text, m1.next + 1, SpacingKeys[2])
        m3 == ParseMember(text, m2.next + 1, SpacingKeys[3])
        m4 == ParseMember(text, m3.next + 1, SpacingKeys[4])
        Comma(m) == m.ok /\ m.next <= Len(text) /\ text[m.next] = ","
        ok == /\ text # <<>> /\ text[1] = "{"
              /\ Comma(m1) /\ Comma(m2) /\ Comma(m3)
              /\ m4.ok /\ m4.next = Len(text) /\ text[m4.next] = "}"
    IN  [ok |-> ok,
         value |-> IF ok
                   THEN [lineSpacing |-> m1.value, characterSpacing |-> m2.value,
                         wordSpacing |-> m3.value, margins |-> m4.value]
                   ELSE DefaultSpacing]

\* A slip: the class "dark" is never removed.
applyThemeKeepsDark(rt, newTheme) ==
    [rt EXCEPT !.dataTheme = newTheme,
               !.classList = IF newTheme = "dark" THEN @ \cup {"dark"} ELSE @]

\* applyTheme / applyFont / applyReadingMode on the document root.
applyTheme(rt, newTheme) ==
    [rt EXCEPT !.dataTheme = newTheme,
               !.classList = IF newTheme = "dark" THEN @ \cup {"dark"}
                             ELSE @ \ {"dark"}]

applyFont(rt, newFont) ==
    [rt EXCEPT !.classList = IF newFont = "serif"
                             THEN (@ \cup {"font-serif"}) \ {"font-sans"}
                             ELSE (@ \cup {"font-sans"}) \ {"font-serif"}]

applyReadingMode(rt, newMode) ==
    [rt EXCEPT !.classList = IF newMode = "page"
                             THEN (@ \cup {"reading-page"}) \ {"reading-scroll"}
                             ELSE (@ \cup {"reading-scroll"}) \ {"reading-page"}]

\* The mount effect of a ThemeSettings instance: the state it sets ...
LoadedSettings ==
    [mounted |-> TRUE,
     theme |-> IF Truthy(localStorage.theme) THEN localStorage.theme
               ELSE IF prefersDark THEN "dark" ELSE "light",
     fontFamily |-> IF Truthy(localStorage.fontFamily) THEN localStorage.fontFamily
                    ELSE "sans",
     readingMode |-> IF Truthy(localStorage.readingMode) THEN localStorage.readingMode
                     ELSE "scroll"]

\* ... and the three apply calls that end it.
MountThemeSettings(i) ==
    /\ settings' = [settings EXCEPT ![i] = LoadedSettings]
    /\ root' = applyReadingMode(applyFont(applyTheme(root, LoadedSettings.theme),
                                          LoadedSettings.fontFamily),
                                LoadedSettings.readingMode)
    /\ actor' = [theme |-> i, font |-> i, event |-> "mount"]

\* The mount effect of HomeTab.  JSON.parse may throw, and the render that
\* follows reads headingClasses[fontSize].h1, which throws for a font size
\* that is no key of the table: either way the component tree is gone.
LoadReadingPreferences ==
    LET savedSize == localStorage.fontSize
        savedSpacing == localStorage.spacingSettings
        parsed == JSONparse(savedSpacing)
    IN  /\ fontSize' = IF Truthy(savedSize) THEN savedSize ELSE fontSize
        /\ spacing' = IF savedSpacing # <<>> /\ parsed.ok THEN parsed.value
                      ELSE spacing
        /\ homePhase' = IF (savedSpacing # <<>> /\ ~parsed.ok)
                           \/ fontSize' \notin FontSizes
                        THEN "crashed" ELSE "ready"

\* HomeTab mounts: the effect of its child (the top ThemeSettings) runs
\* first, then its own.
MountHomeTab ==
    /\ homePhase = "unmounted"
    /\ MountThemeSettings("top")
    /\ LoadReadingPreferences
    /\ UNCHANGED <<localStorage, chosen, prefersDark, showFooterControls,
                   refVars, quoteVars, appVars, routeVars, tocVars>>

\* The page is reloaded (or opened again later): component state and the
\* document are new, local storage is kept.
Reload ==
    /\ homePhase # "unmounted"
    /\ fontSize' = DefaultFontSize
    /\ spacing' = DefaultSpacing
    /\ homePhase' = "unmounted"
    /\ showFooterControls' = FALSE
    /\ settings' = [i \in Instances |-> InitialSettings]
    /\ root' = BlankRoot
    /\ actor' = NoActor
    /\ showToc' = FALSE
    /\ tocAnchor' = "top"
    /\ activeSection' = ""
    /\ tocEvent' = NoEvent
    /\ toggles' = <<>>
    /\ UNCHANGED <<localStorage, chosen, prefersDark, refVars, quoteVars, appVars, routeVars>>

\* The IntersectionObserver of the top toolbar reports: the footer controls,
\* and with them the second ThemeSettings, mount or unmount.
FooterControls(show) ==
    /\ homePhase = "ready"
    /\ show # showFooterControls
    /\ showFooterControls' = show
    /\ IF show
       THEN MountThemeSettings("footer")
       ELSE /\ settings' = [settings EXCEPT !["footer"] = InitialSettings]
            /\ actor' = [theme |-> IF actor.theme = "footer" THEN Null ELSE actor.theme,
                          font |-> IF actor.font = "footer" THEN Null ELSE actor.font,
                          event |-> "unmount"]
            /\ root' = root
    /\ UNCHANGED <<localStorage, fontSize, spacing, homePhase, chosen,
                   prefersDark, refVars, quoteVars, appVars, routeVars, tocVars>>

\* HomeTab.handleFontSizeChange
handleFontSizeChange(size) ==
    /\ fontSize' = size
    /\ localStorage' = [localStorage EXCEPT !.fontSize = size]
    /\ chosen' = [chosen EXCEPT !.fontSize = size]

\* HomeTab.handleSpacingChange
handleSpacingChange(newSpacing) ==
    /\ spacing' = newSpacing
    /\ localStorage' = [localStorage EXCEPT !.spacingSettings = JSONstringify(newSpacing)]
    /\ chosen' = [chosen EXCEPT !.spacing = newSpacing]

\* The controls of instance i exist once its mount effect has run.
Usable(i) == homePhase = "ready" /\ settings[i].mounted

\* One of the three font size buttons of instance i.
FontSizeButton(i, size) ==
    /\ Usable(i)
    /\ handleFontSizeChange(size)
    /\ UNCHANGED <<spacing, homePhase, themeVars, refVars, quoteVars, appVars, routeVars, tocVars>>

\* The values the sliders are moved to (the range inputs deliver numbers
\* within min..max on the step grid), in hundredths.
SliderValues ==
    [lineSpacing |-> {100, 105, 150, 175},
     characterSpacing |-> {-500, 0},
     wordSpacing |-> {-1000, 0},
     margins |-> {0, 3000}]

\* A slider of instance i: ThemeSettings.handleSpacingChange(key, value).
SpacingSlider(i, key, value) ==
    /\ Usable(i)
    /\ handleSpacingChange([spacing EXCEPT ![key] = value])
    /\ UNCHANGED <<fontSize, homePhase, themeVars, refVars, quoteVars, appVars, routeVars, tocVars>>

\* The "Reset Spacing" button of instance i.
ResetSpacing(i) ==
    /\ Usable(i)
    /\ handleSpacingChange(DefaultSpacing)
    /\ UNCHANGED <<fontSize, homePhase, themeVars, refVars, quoteVars, appVars, routeVars, tocVars>>

\* The Light / Dark buttons of instance i.
ThemeButton(i, newTheme) ==
    /\ Usable(i)
    /\ settings' = [settings EXCEPT ![i].theme = newTheme]
    /\ root' = applyTheme(root, newTheme)
    /\ localStorage' = [localStorage EXCEPT !.theme = newTheme]
    /\ actor' = [actor EXCEPT !.theme = i, !.event = "theme"]
    /\ UNCHANGED <<prefVars, prefersDark, showFooterControls, refVars, quoteVars, appVars, routeVars, tocVars>>

\* The Sans-Serif / Serif buttons of instance i.
FontButton(i, newFont) ==
    /\ Usable(i)
    /\ settings' = [settings EXCEPT ![i].fontFamily = newFont]
    /\ root' = applyFont(root, newFont)
    /\ localStorage' = [localStorage EXCEPT !.fontFamily = newFont]
    /\ actor' = [actor EXCEPT !.font = i, !.event = "fontFamily"]
    /\ UNCHANGED <<prefVars, prefersDark, showFooterControls, refVars, quoteVars, appVars, routeVars, tocVars>>

\* Reading preferences: storage starts empty, or holds a spacing text that
\* is no JSON.
NotJson == <<"{">>

InitPrefs ==
    /\ content = <<>>
    /\ Unmounted
    /\ QuoteIdle
    /\ HomeTabInitial
    /\ AppInitial /\ added = FALSE /\ hasAddMiniApp = TRUE
    /\ query = Missing /\ NotRequested
    /\ chosen = [fontSize |-> DefaultFontSize, spacing |-> DefaultSpacing]
    /\ prefersDark = FALSE
    /\ localStorage \in {[NoStorage EXCEPT !.spacingSettings = t] : t \in {<<>>, NotJson}}

NextPrefs ==
    \/ MountHomeTab
    \/ Reload
    \/ \E show \in BOOLEAN : FooterControls(show)
    \/ \E i \in Instances, size \in FontSizes : FontSizeButton(i, size)
    \/ \E i \in Instances, key \in DOMAIN SliderValues :
          \E value \in SliderValues[key] : SpacingSlider(i, key, value)
    \/ \E i \in Instances : ResetSpacing(i)

SpecPrefs == InitPrefs /\ [][NextPrefs]_vars

\* C12: while HomeTab is up, the font size and the spacing in memory are
\* the ones the user chose last, in this or an earlier session (the defaults
\* medium and {1.75, 0, 0, 0} when none was chosen); local storage holds
\* "fontSize" equal to the font size in memory and "spacingSettings" a JSON
\* text of the spacing record in memory, or neither key with the defaults in
\* memory.
C12_PreferencesPersist ==
    homePhase = "ready" =>
        /\ fontSize = chosen.fontSize
        /\ spacing = chosen.spacing
        /\ \/ localStorage.fontSize = Null /\ fontSize = DefaultFontSize
           \/ localStorage.fontSize = fontSize
        /\ \/ localStorage.spacingSettings = <<>> /\ spacing = DefaultSpacing
           \/ /\ JSONparse(localStorage.spacingSettings).ok
              /\ JSONparse(localStorage.spacingSettings).value = spacing

\* C12 witness: a mount has restored a large font and a spacing with a
\* negative number and a two-digit fraction, chosen in an earlier session.
C12_Witness ==
    /\ homePhase = "ready"
    /\ actor.event = "mount"
    /\ ~showFooterControls
    /\ fontSize = "large"
    /\ spacing.lineSpacing = 105
    /\ spacing.characterSpacing < 0
    /\ spacing.margins = 3000

(***************************************************************************)
(* The theme panel with whatever an earlier page of the same origin left   *)
(* in local storage.                                                       *)
(***************************************************************************)
\* Stored strings the handlers of this program never write.
ForeignValues == {"", "other"}

InitTheme ==
    /\ content = <<>>
    /\ Unmounted
    /\ QuoteIdle
    /\ HomeTabInitial
    /\ AppInitial /\ added = FALSE /\ hasAddMiniApp = TRUE
    /\ query = Missing /\ NotRequested
    /\ chosen = [fontSize |-> DefaultFontSize, spacing |-> DefaultSpacing]
    /\ prefersDark \in BOOLEAN
    /\ localStorage \in
          {[NoStorage EXCEPT !.fontSize = a, !.theme = b, !.fontFamily = c,
                             !.readingMode = d] :
              a \in {Null} \cup ForeignValues, b \in {Null} \cup ForeignValues,
              c \in {Null} \cup ForeignValues, d \in {Null} \cup ForeignValues}

NextTheme ==
    \/ MountHomeTab
    \/ Reload
    \/ \E show \in BOOLEAN : FooterControls(show)
    \/ \E i \in Instances, newTheme \in Themes : ThemeButton(i, newTheme)
    \/ \E i \in Instances, newFont \in FontFamilies : FontButton(i, newFont)
    \/ \E i \in Instances, size \in FontSizes : FontSizeButton(i, size)

SpecTheme == InitTheme /\ [][NextTheme]_vars

\* C13: in every reachable state the font size is small, medium or large,
\* and every ThemeSettings instance has theme light or dark, font family
\* sans or serif and reading mode scroll or page.
C13_ValidEnums ==
    /\ fontSize \in FontSizes
    /\ \A i \in Instances :
          /\ settings[i].theme \in Themes
          /\ settings[i].fontFamily \in FontFamilies
          /\ settings[i].readingMode \in ReadingModes

MaxAddCalls == 4     \* addMiniApp calls per session

notAppVars == <<refVars, quoteVars, prefVars, themeVars, routeVars, tocVars>>

\* The call of actions.addMiniApp(), up to its await.
CallAddMiniApp ==
    /\ addCalls < MaxAddCalls
    /\ addCalls' = addCalls + 1
    /\ addPending' = addPending + 1

\* attemptAddMiniApp up to its await, run with the dependency values sdk
\* and add of the render that scheduled the effect.
attemptAddMiniApp(sdk, add) ==
    IF sdk /\ ~add /\ hasAddMiniApp /\ localStorage.hasAttemptedAddMiniApp = Null
    THEN CallAddMiniApp
    ELSE UNCHANGED <<addCalls, addPending>>

\* useMiniApp reports the SDK as loaded; the effect runs again.
AutoSdkLoaded ==
    /\ ~isSDKLoaded
    /\ isSDKLoaded' = TRUE
    /\ attemptAddMiniApp(TRUE, added)
    /\ appEvent' = "sdk"
    /\ UNCHANGED <<added, hasAddMiniApp, showAddPrompt, isAddingMiniApp,
                   localStorage, notAppVars>>

\* useMiniApp reports a new value of added (the host added or removed the
\* mini app); the effect runs again.
AutoAddedChanged ==
    /\ isSDKLoaded
    /\ added' = ~added
    /\ attemptAddMiniApp(isSDKLoaded, ~added)
    /\ appEvent' = "added"
    /\ UNCHANGED <<isSDKLoaded, hasAddMiniApp, showAddPrompt, isAddingMiniApp,
                   localStorage, notAppVars>>

\* useMiniApp returns a new actions object; the effect runs again.
AutoActionsChanged ==
    /\ isSDKLoaded
    /\ attemptAddMiniApp(isSDKLoaded, added)
    /\ appEvent' = "actions"
    /\ UNCHANGED <<isSDKLoaded, added, hasAddMiniApp, showAddPrompt,
                   isAddingMiniApp, localStorage, notAppVars>>

\* await actions.addMiniApp() resolves: the flag is stored.
AutoAddResolved ==
    /\ addPending > 0
    /\ addPending' = addPending - 1
    /\ localStorage' = [localStorage EXCEPT !.hasAttemptedAddMiniApp = "true"]
    /\ appEvent' = "resolved"
    /\ UNCHANGED <<isSDKLoaded, added, hasAddMiniApp, addCalls, showAddPrompt,
                   isAddingMiniApp, notAppVars>>

\* await actions.addMiniApp() rejects: the catch block stores the flag too.
AutoAddRejected ==
    /\ addPending > 0
    /\ addPending' = addPending - 1
    /\ localStorage' = [localStorage EXCEPT !.hasAttemptedAddMiniApp = "true"]
    /\ appEvent' = "rejected"
    /\ UNCHANGED <<isSDKLoaded, added, hasAddMiniApp, addCalls, showAddPrompt,
                   isAddingMiniApp, notAppVars>>

\* The mini app is opened again: a new session.  Component state is new and
\* the calls of the old page are gone; local storage and the host's added
\* state are kept.
ReloadApp ==
    /\ isSDKLoaded
    /\ isSDKLoaded' = FALSE
    /\ addPending' = 0
    /\ addCalls' = 0
    /\ showAddPrompt' = FALSE
    /\ isAddingMiniApp' = FALSE
    /\ appEvent' = "mount"
    /\ UNCHANGED <<added, hasAddMiniApp, localStorage, notAppVars>>

InitApp ==
    /\ content = <<>>
    /\ Unmounted
    /\ QuoteIdle
    /\ HomeTabInitial
    /\ chosen = [fontSize |-> DefaultFontSize, spacing |-> DefaultSpacing]
    /\ prefersDark = FALSE
    /\ localStorage = NoStorage
    /\ AppInitial
    /\ query = Missing /\ NotRequested
    /\ added \in BOOLEAN
    /\ hasAddMiniApp \in BOOLEAN

NextAutoAdd ==
    \/ AutoSdkLoaded
    \/ AutoAddedChanged
    \/ AutoActionsChanged
    \/ AutoAddResolved
    \/ AutoAddRejected
    \/ ReloadApp

SpecAutoAdd == InitApp /\ [][NextAutoAdd]_vars

\* C14: in one session addMiniApp is called at most once, whatever effect
\* runs happen and also while an earlier call is pending; every call that
\* settles stores "hasAttemptedAddMiniApp", and with the flag stored no
\* effect run, in this or a later session, calls addMiniApp.
C14_AddAttemptedOnce ==
    /\ addCalls <= 1
    /\ appEvent \in {"resolved", "rejected"} =>
          localStorage.hasAttemptedAddMiniApp = "true"
    /\ localStorage.hasAttemptedAddMiniApp = "true" => addCalls <= 1

(***************************************************************************)
(* App, prompt variant (src/unnamed/part_001, lines 114-321): an effect    *)
(* with the dependencies [isSDKLoaded, added] shows the add prompt; the    *)
(* prompt's buttons run handleAddMiniApp and handleDismissPrompt.          *)
(***************************************************************************)
\* A slip: the effect does not look at local storage.
showPromptEffectIgnoresFlag(sdk, add) ==
    IF sdk /\ ~add
    THEN showAddPrompt' = TRUE
    ELSE UNCHANGED showAddPrompt

\* The add prompt effect, run with the dependency values sdk and add.
showPromptEffect(sdk, add) ==
    IF sdk /\ ~add /\ localStorage.hasSeenAddPrompt = Null
    THEN showAddPrompt' = TRUE
    ELSE UNCHANGED showAddPrompt

PromptSdkLoaded ==
    /\ ~isSDKLoaded
    /\ isSDKLoaded' = TRUE
    /\ showPromptEffect(TRUE, added)
    /\ appEvent' = "sdk"
    /\ UNCHANGED <<added, hasAddMiniApp, addPending, addCalls, isAddingMiniApp,
                   localStorage, notAppVars>>

PromptAddedChanged ==
    /\ isSDKLoaded
    /\ added' = ~added
    /\ showPromptEffect(isSDKLoaded, ~added)
    /\ appEvent' = "added"
    /\ UNCHANGED <<isSDKLoaded, hasAddMiniApp, addPending, addCalls,
                   isAddingMiniApp, localStorage, notAppVars>>

\* The prompt is in the document: App returns the loading screen while the
\* SDK is not loaded.
PromptRendered == isSDKLoaded /\ showAddPrompt

\* A slip: a rejected call is treated like a dismissal.
AddMiniAppRejectedHides ==
    /\ addPending > 0
    /\ addPending' = addPending - 1
    /\ isAddingMiniApp' = FALSE
    /\ showAddPrompt' = FALSE
    /\ appEvent' = "rejected"
    /\ UNCHANGED <<isSDKLoaded, added, hasAddMiniApp, addCalls, localStorage,
                   notAppVars>>

\* A click on "Add Mini App" (disabled while isAddingMiniApp):
\* handleAddMiniApp up to its await.
handleAddMiniApp ==
    /\ PromptRendered
    /\ ~isAddingMiniApp
    /\ IF ~isSDKLoaded \/ ~hasAddMiniApp
       THEN UNCHANGED <<isAddingMiniApp, addCalls, addPending>>
       ELSE /\ isAddingMiniApp' = TRUE
            /\ CallAddMiniApp
    /\ appEvent' = "add"
    /\ UNCHANGED <<isSDKLoaded, added, hasAddMiniApp, showAddPrompt,
                   localStorage, notAppVars>>

\* await actions.addMiniApp() resolves: the prompt is hidden and marked as
\* seen; finally isAddingMiniApp is reset.
AddMiniAppResolved ==
    /\ addPending > 0
    /\ addPending' = addPending - 1
    /\ showAddPrompt' = FALSE
    /\ localStorage' = [localStorage EXCEPT !.hasSeenAddPrompt = "true"]
    /\ isAddingMiniApp' = FALSE
    /\ appEvent' = "resolved"
    /\ UNCHANGED <<isSDKLoaded, added, hasAddMiniApp, addCalls, notAppVars>>

\* await actions.addMiniApp() rejects: catch logs; finally isAddingMiniApp
\* is reset.
AddMiniAppRejected ==
    /\ addPending > 0
    /\ addPending' = addPending - 1
    /\ isAddingMiniApp' = FALSE
    /\ appEvent' = "rejected"
    /\ UNCHANGED <<isSDKLoaded, added, hasAddMiniApp, addCalls, showAddPrompt,
                   localStorage, notAppVars>>

\* "Maybe Later" or the close button.
handleDismissPrompt ==
    /\ PromptRendered
    /\ showAddPrompt' = FALSE
    /\ localStorage' = [localStorage EXCEPT !.hasSeenAddPrompt = "true"]
    /\ appEvent' = "dismiss"
    /\ UNCHANGED <<isSDKLoaded, added, hasAddMiniApp, addPending, addCalls,
                   isAddingMiniApp, notAppVars>>

NextPrompt ==
    \/ PromptSdkLoaded
    \/ PromptAddedChanged
    \/ handleAddMiniApp
    \/ AddMiniAppResolved
    \/ AddMiniAppRejected
    \/ handleDismissPrompt
    \/ ReloadApp

SpecPrompt == InitApp /\ [][NextPrompt]_vars

\* C15: a step of a session that hides the visible add prompt ends with
\* "hasSeenAddPrompt" stored as "true"; a rejected addMiniApp call leaves
\* the prompt's visibility and local storage as they were; after a call has
\* settled, either way, isAddingMiniApp is false.
C15_PromptHidden ==
    [][/\ (showAddPrompt /\ ~showAddPrompt' /\ appEvent' # "mount") =>
              /\ localStorage'.hasSeenAddPrompt = "true"
              /\ appEvent' \in {"resolved", "dismiss"}
       /\ appEvent' = "rejected" =>
              /\ showAddPrompt' = showAddPrompt
              /\ localStorage' = localStorage
              /\ isAddingMiniApp' = FALSE
       /\ appEvent' = "resolved" => isAddingMiniApp' = FALSE]_vars

\* C15 witness: addMiniApp has rejected; the prompt is still visible, not
\* marked as seen, and its button is enabled again.
C15_Witness ==
    /\ appEvent = "rejected"
    /\ PromptRendered
    /\ localStorage.hasSeenAddPrompt = Null
    /\ ~isAddingMiniApp
    /\ addPending = 0

\* C16: a step that makes the add prompt visible happens with the SDK
\* loaded, the mini app not added and no "hasSeenAddPrompt" in local
\* storage; in every state in which "hasSeenAddPrompt" is stored the prompt
\* is hidden, in the session that stored it and in every later one.
C16_PromptShown ==
    [][/\ (~showAddPrompt /\ showAddPrompt') =>
              /\ isSDKLoaded' /\ ~added'
              /\ localStorage.hasSeenAddPrompt = Null
              /\ localStorage'.hasSeenAddPrompt = Null
       /\ localStorage'.hasSeenAddPrompt # Null => ~showAddPrompt'
       /\ localStorage.hasSeenAddPrompt # Null =>
              localStorage'.hasSeenAddPrompt # Null]_vars

\* C16 witness: in a session after the one that dismissed the prompt, the
\* SDK is loaded and the mini app is not added, and the prompt is hidden.
C16_Witness ==
    /\ localStorage.hasSeenAddPrompt = "true"
    /\ appEvent = "sdk"
    /\ isSDKLoaded /\ ~added
    /\ ~showAddPrompt

(***************************************************************************)
(* The server side of a shared quote: sanitizeQuote of the share page      *)
(* (src/unnamed/part_000) and of the open-graph image route                *)
(* (src/unnamed/part_001, lines 46-112), each with its own copy.           *)
(***************************************************************************)
MaxRawLen == 4       \* longest parameter value of the exhaustive family

notRouteVars == <<refVars, quoteVars, storeVars, prefVars, themeVars, appVars, tocVars>>

IsHex(c) ==
    c \in {"0", "1", "2", "3", "4", "5", "6", "7", "8", "9",
           "A", "B", "C", "D", "E", "F", "a", "b", "c", "d", "e", "f"}

HexVal(c) ==
    CASE IsDigit(c) -> DigitVal(c)
      [] c \in {"A", "a"} -> 10 [] c \in {"B", "b"} -> 11
      [] c \in {"C", "c"} -> 12 [] c \in {"D", "d"} -> 13
      [] c \in {"E", "e"} -> 14 [] c \in {"F", "f"} -> 15

\* The character of an ASCII byte: those an escape of the model can name
\* (their hex digits are 0, 2, A, E) and those encodeURIComponent escapes.
ByteChar(b) ==
    CASE b = 32 -> " " [] b = 10 -> "\n" [] b = 9 -> "\t"
      [] b = 34 -> "\"" [] b = 37 -> "%" [] b = 38 -> "&"
      [] b = 42 -> "*" [] b = 46 -> "."
      [] b = 0 -> "<NUL>" [] b = 2 -> "<STX>" [] b = 14 -> "<SO>"
      [] OTHER -> "?"

\* A character outside ASCII.  The escapes of the model can only name ones
\* that are no whitespace (no hex digit 8, 9, B, C or F is at hand).
NonAscii == "<non-ascii>"

\* The number of continuation bytes after a UTF-8 lead byte b; -1 when b
\* cannot start a sequence.
Continuations(b) ==
    IF b < 128 THEN 0
    ELSE IF b \in 194..223 THEN 1
    ELSE IF b \in 224..239 THEN 2
    ELSE IF b \in 240..244 THEN 3
    ELSE 0 - 1

\* decodeURIComponent(s): every "%" must start an escape %XX, and the bytes
\* of the escapes must be UTF-8; ok = FALSE when it throws URIError.
decodeURIComponent(s) ==
    LET Escape(i) == i >= 1 /\ i + 2 <= Len(s) /\ s[i] = "%"
                     /\ IsHex(s[i + 1]) /\ IsHex(s[i + 2])
        Byte(i) == 16 * HexVal(s[i + 1]) + HexVal(s[i + 2])
        Tail8(i) == Escape(i) /\ Byte(i) \in 128..191
        LeadOk(i) == /\ Continuations(Byte(i)) >= 1
                     /\ \A j \in 1..Continuations(Byte(i)) : Tail8(i + 3 * j)
        TailOk(i) == \E k \in 1..3 :
                        /\ Escape(i - 3 * k)
                        /\ Continuations(Byte(i - 3 * k)) >= k
                        /\ \A j \in 1..(k - 1) : Tail8(i - 3 * j)
        ok == \A i \in 1..Len(s) :
                 s[i] = "%" =>
                    /\ Escape(i)
                    /\ \/ Byte(i) < 128
                       \/ Tail8(i) /\ TailOk(i)
                       \/ Byte(i) >= 192 /\ LeadOk(i)
    IN  [ok |-> ok,
         value |-> IF ~ok THEN s
                   ELSE Flatten([k \in 1..Len(s) |->
                            IF s[k] = "%"
                            THEN IF Byte(k) < 128 THEN <<ByteChar(Byte(k))>>
                                 ELSE IF Byte(k) >= 192 THEN <<NonAscii>>
                                 ELSE <<>>
                            ELSE IF (k > 1 /\ s[k - 1] = "%") \/ (k > 2 /\ s[k - 2] = "%")
                                 THEN <<>>
                                 ELSE <<s[k]>>])]

\* A slip: the share page returns the normalized text uncut.
sanitizeQuoteUncut(raw) ==
    IF raw.kind = "missing" \/ (raw.kind = "string" /\ raw.values[1] = <<>>)
    THEN <<>>
    ELSE LET value == raw.values[1]
             dec == decodeURIComponent(value)
             decoded == IF dec.ok THEN dec.value ELSE value
         IN  Trim(ReplaceWhitespaceRuns(decoded))

\* sanitizeQuote of the share page: raw is undefined, a string, or (for a
\* repeated parameter) an array of strings.
sanitizeQuote(raw) ==
    IF raw.kind = "missing" \/ (raw.kind = "string" /\ raw.values[1] = <<>>)
    THEN <<>>
    ELSE LET value == raw.values[1]
             dec == decodeURIComponent(value)
             decoded == IF dec.ok THEN dec.value ELSE value
             normalized == Trim(ReplaceWhitespaceRuns(decoded))
         IN  IF normalized = <<>> THEN <<>>
             ELSE IF Len(normalized) > MAX_QUOTE_LENGTH
                  THEN Slice(normalized, MAX_QUOTE_LENGTH)
                  ELSE normalized

\* sanitizeQuote of the image route: value is null or a string.
sanitizeQuoteImage(value) ==
    IF value.kind = "missing" \/ value.values[1] = <<>>
    THEN <<>>
    ELSE LET dec == decodeURIComponent(value.values[1])
             decoded == IF dec.ok THEN dec.value ELSE value.values[1]
             normalized == Trim(ReplaceWhitespaceRuns(decoded))
         IN  IF normalized = <<>> THEN <<>>
             ELSE IF Len(normalized) > MAX_QUOTE_LENGTH
                  THEN Slice(normalized, MAX_QUOTE_LENGTH)
                  ELSE normalized

\* URLSearchParams.get("text"): null, or the first value.
SearchParamsGet(q) ==
    IF q.kind = "missing" THEN Missing
    ELSE [kind |-> "string", values |-> <<q.values[1]>>]

APP_DESCRIPTION == <<"<APP_DESCRIPTION>">>
DefaultDisplayQuote ==
    <<"In this paper, we propose a solution to the double-spending problem using a peer-to-peer distributed timestamp server.">>

\* generateMetadata of the share page.
generateMetadata ==
    /\ "page" \notin served
    /\ pageQuote' = sanitizeQuote(query)
    /\ description' = IF pageQuote' = <<>> THEN APP_DESCRIPTION ELSE pageQuote'
    /\ served' = served \cup {"page"}
    /\ UNCHANGED <<query, imageQuote, displayQuote, notRouteVars>>

\* GET of the image route.
GET ==
    /\ "image" \notin served
    /\ imageQuote' = sanitizeQuoteImage(SearchParamsGet(query))
    /\ displayQuote' = IF imageQuote' = <<>> THEN DefaultDisplayQuote ELSE imageQuote'
    /\ served' = served \cup {"image"}
    /\ UNCHANGED <<query, pageQuote, description, notRouteVars>>

\* The parameter values of the model: every text of up to MaxRawLen
\* characters over a small alphabet, texts about as long as the bound, and
\* repeated parameters.
RawAlphabet == {"a", " ", "%", "2", "0", "A", "E"}
ShortRaws == UNION {[1..n -> RawAlphabet] : n \in 0..MaxRawLen}
RawGaps == {<<>>, <<" ">>, <<"\t", " ">>, <<"%", "2", "0">>, <<" ", " ", "%">>}
LongRaws ==
    {Word(n) \o gap \o Word(m) :
        n \in {MAX_QUOTE_LENGTH - 1, MAX_QUOTE_LENGTH, MAX_QUOTE_LENGTH + 1},
        gap \in RawGaps, m \in {0, 2}}
RepeatedRaws ==
    {<<a, b>> : a \in {<<>>, <<" ">>, <<"a", "%">>, <<"a", " ", " ", "a">>},
                b \in {<<>>, <<"a">>}}

Queries ==
    {Missing}
    \cup {[kind |-> "string", values |-> <<t>>] : t \in ShortRaws \cup LongRaws}
    \cup {[kind |-> "array", values |-> ts] : ts \in RepeatedRaws}

InitRoute ==
    /\ content = <<>>
    /\ Unmounted
    /\ QuoteIdle
    /\ localStorage = NoStorage
    /\ HomeTabInitial
    /\ chosen = [fontSize |-> DefaultFontSize, spacing |-> DefaultSpacing]
    /\ prefersDark = FALSE
    /\ AppInitial /\ added = FALSE /\ hasAddMiniApp = TRUE
    /\ query \in Queries
    /\ NotRequested

NextRoute == generateMetadata \/ GET

SpecRoute == InitRoute /\ [][NextRoute]_vars

\* The characters of s that are no whitespace.
Solid(s) == SelectSeq(s, LAMBDA c : ~IsSpace(c))

\* The text a parameter value stands for: the value decoded, or the value
\* itself when its percent-encoding is malformed.
Meant(value) ==
    IF decodeURIComponent(value).ok THEN decodeURIComponent(value).value ELSE value

\* q is a sanitized form of the text t: at most MAX_QUOTE_LENGTH characters,
\* its only whitespace single spaces between or after other characters, and
\* its other characters those of t in order, all of them unless q is full.
Sanitized(q, t) ==
    /\ Len(q) <= MAX_QUOTE_LENGTH
    /\ \A k \in 1..Len(q) :
          IsSpace(q[k]) => q[k] = " " /\ k > 1 /\ ~IsSpace(q[k - 1])
    /\ Len(Solid(q)) <= Len(Solid(t))
    /\ Solid(q) = SubSeq(Solid(t), 1, Len(Solid(q)))
    /\ Len(q) < MAX_QUOTE_LENGTH => Solid(q) = Solid(t)
    /\ Solid(t) = <<>> => q = <<>>

\* C18: whatever the "text" parameter is, each route's quote is a sanitized
\* form of its (first) value, the empty string when the parameter is missing
\* or only whitespace; both routes compute the same quote; an empty quote
\* makes the share page describe itself with APP_DESCRIPTION and the image
\* show its default text, any other quote is used as it is.
C18_SanitizedQuote ==
    LET t == IF query.kind = "missing" THEN <<>> ELSE Meant(query.values[1]) IN
    /\ "page" \in served =>
          /\ Sanitized(pageQuote, t)
          /\ description = IF pageQuote = <<>> THEN APP_DESCRIPTION ELSE pageQuote
    /\ "image" \in served =>
          /\ Sanitized(imageQuote, t)
          /\ displayQuote = IF imageQuote = <<>> THEN DefaultDisplayQuote
                            ELSE imageQuote
    /\ served = {"page", "image"} => pageQuote = imageQuote

\* C18 witness: both routes have answered a request whose text is longer
\* than the bound, holds a whitespace run and a malformed escape, and was
\* cut right after the collapsed run.
C18_Witness ==
    /\ served = {"page", "image"}
    /\ query.kind = "string"
    /\ ~decodeURIComponent(query.values[1]).ok
    /\ Len(query.values[1]) > MAX_QUOTE_LENGTH + 1
    /\ Len(pageQuote) = MAX_QUOTE_LENGTH
    /\ pageQuote[MAX_QUOTE_LENGTH] = " "
    /\ imageQuote = pageQuote

(***************************************************************************)
(* The table of contents of HomeTab: the two toggle buttons, the popover   *)
(* and the document listeners that close it.                               *)
(***************************************************************************)
notTocVars == <<refVars, quoteVars, storeVars, prefVars, themeVars, appVars, routeVars>>

\* What a mousedown can hit: the popover (in the document while showToc),
\* the toggle button of the top toolbar, the one of the footer controls (in
\* the document while showFooterControls), or anything else.
Targets == {"popover", "top", "bottom", "elsewhere"}

InDocument(target) ==
    /\ target = "popover" => showToc
    /\ target = "bottom" => showFooterControls

\* A slip: only the popover counts as inside.
handleClickOutsidePopoverOnly(target) ==
    IF target = "popover"
    THEN UNCHANGED showToc
    ELSE showToc' = FALSE

\* handleClickOutside: tocPopoverRef and tocButtonRefs hold the elements
\* that are in the document.
handleClickOutside(target) ==
    IF target = "popover" \/ target \in {"top", "bottom"}
    THEN UNCHANGED showToc
    ELSE showToc' = FALSE

\* handleKeyDown
handleKeyDown(key) ==
    IF key = "Escape" THEN showToc' = FALSE ELSE UNCHANGED showToc

\* A mousedown anywhere in the document.  The listener is registered only
\* while showToc (the effect returns early otherwise and its cleanup has
\* removed the listener).
Mousedown(target) ==
    /\ homePhase = "ready"
    /\ InDocument(target)
    /\ IF showToc THEN handleClickOutside(target) ELSE UNCHANGED showToc
    /\ tocEvent' = [type |-> "mousedown", detail |-> target]
    /\ UNCHANGED <<tocAnchor, activeSection, toggles, notTocVars>>

Keys == {"Escape", "Enter"}

\* A keydown anywhere in the document.
Keydown(key) ==
    /\ homePhase = "ready"
    /\ IF showToc THEN handleKeyDown(key) ELSE UNCHANGED showToc
    /\ tocEvent' = [type |-> "keydown", detail |-> key]
    /\ UNCHANGED <<tocAnchor, activeSection, toggles, notTocVars>>

\* The last two handleToggleToc calls, the call just made included: the
\* button pressed, the anchor and the visibility it found, the visibility
\* it left.
Toggled(anchor, after) ==
    LET call == [anchor |-> anchor, from |-> tocAnchor,
                 before |-> showToc, after |-> after]
    IN  IF toggles = <<>> THEN <<call>> ELSE <<toggles[Len(toggles)], call>>

\* A slip: every press inverts the visibility.
handleToggleTocInverts(anchor) ==
    /\ homePhase = "ready"
    /\ InDocument(anchor)
    /\ showToc' = ~showToc
    /\ tocAnchor' = anchor
    /\ tocEvent' = [type |-> "toggle", detail |-> anchor]
    /\ toggles' = Toggled(anchor, showToc')
    /\ UNCHANGED <<activeSection, notTocVars>>

\* A click on a toggle button: handleToggleToc(anchor).
handleToggleToc(anchor) ==
    /\ homePhase = "ready"
    /\ InDocument(anchor)
    /\ showToc' = IF anchor = tocAnchor THEN ~showToc ELSE TRUE
    /\ tocAnchor' = anchor
    /\ tocEvent' = [type |-> "toggle", detail |-> anchor]
    /\ toggles' = Toggled(anchor, showToc')
    /\ UNCHANGED <<activeSection, notTocVars>>

\* A click on an entry of the popover: scrollToSection(id), where found
\* tells whether document.getElementById(id) returns an element.
scrollToSection(found) ==
    /\ homePhase = "ready"
    /\ showToc
    /\ IF found THEN showToc' = FALSE ELSE UNCHANGED showToc
    /\ tocEvent' = [type |-> "entry", detail |-> IF found THEN "found" ELSE "none"]
    /\ UNCHANGED <<tocAnchor, activeSection, toggles, notTocVars>>

\* The elements with data-section: the abstract, the sections of the paper
\* (one stands for all), the reference list.
SectionIds == {"abstract", "introduction", "references"}

\* The IntersectionObserver of the sections reports one as intersecting.
SectionObserved(id) ==
    /\ homePhase = "ready"
    /\ activeSection' = id
    /\ tocEvent' = [type |-> "observer", detail |-> id]
    /\ UNCHANGED <<showToc, tocAnchor, toggles, notTocVars>>

InitToc ==
    /\ content = <<>>
    /\ Unmounted
    /\ QuoteIdle
    /\ ShellIdle

NextToc ==
    \/ MountHomeTab
    \/ \E show \in BOOLEAN : FooterControls(show)
    \/ \E target \in Targets : Mousedown(target)
    \/ \E key \in Keys : Keydown(key)
    \/ \E anchor \in {"top", "bottom"} : handleToggleToc(anchor)
    \/ \E found \in BOOLEAN : scrollToSection(found)
    \/ \E id \in SectionIds : SectionObserved(id)

SpecToc == InitToc /\ [][NextToc]_vars

\* C19: with the table of contents open, Escape and a mousedown outside the
\* popover and the toggle buttons close it, a mousedown on the popover or on
\* a toggle button leaves it open, and a click on an entry whose element
\* exists closes it; with it closed, no keydown and no mousedown changes
\* showToc or tocAnchor.
C19_TocCloses ==
    [][/\ (showToc /\ tocEvent' = [type |-> "keydown", detail |-> "Escape"])
              => ~showToc'
       /\ (showToc /\ tocEvent' = [type |-> "mousedown", detail |-> "elsewhere"])
              => ~showToc'
       /\ (showToc /\ tocEvent'.type = "mousedown" /\ tocEvent'.detail # "elsewhere")
              => showToc'
       /\ (showToc /\ tocEvent' = [type |-> "entry", detail |-> "found"])
              => ~showToc'
       /\ (~showToc /\ tocEvent'.type \in {"keydown", "mousedown"})
              => ~showToc' /\ tocAnchor' = tocAnchor]_vars

\* C19 witness: the table of contents, opened from the footer controls, is
\* still open after a mousedown on the footer toggle button.
C19_Witness ==
    /\ showToc
    /\ tocAnchor = "bottom"
    /\ showFooterControls
    /\ tocEvent = [type |-> "mousedown", detail |-> "bottom"]

(***************************************************************************)
(* The ids of the citation anchors of one render.                          *)
(***************************************************************************)
\* C20: the ids of the anchors of the current render, over the abstract
\* and all paragraphs, are pairwise distinct.
C20_AnchorIdsDistinct ==
    \A i, j \in 1..Len(AllAnchors) :
        i # j => AllAnchors[i].id # AllAnchors[j].id

\* C20 witness: a re-render with three anchors of the same reference in two
\* texts, one of them a range marker.
C20_Witness ==
    /\ renders >= 2
    /\ Len(AllAnchors) = 3
    /\ \A i \in 1..3 : AllAnchors[i].href = ReferenceHref(1)
    /\ \E i \in 1..3 : FirstDash(AllAnchors[i].text) # 0
    /\ \E i \in 1..3 : FirstDash(AllAnchors[i].text) = 0
    /\ \A p \in 1..Len(dom) : AnchorsOf(dom[p]) # <<>>
    /\ Len(dom) >= 2

(***************************************************************************)
(* The toggle buttons of the table of contents.                            *)
(***************************************************************************)
\* What every single handleToggleToc call does: it inverts the visibility
\* when pressed from the current anchor and opens the table of contents
\* otherwise, and the current anchor becomes the button pressed; the state
\* agrees with the last call as long as no other event has followed it.
ToggleStep ==
    /\ \A k \in 1..Len(toggles) :
          toggles[k].after = IF toggles[k].anchor = toggles[k].from
                             THEN ~toggles[k].before
                             ELSE TRUE
    /\ toggles # <<>> => tocAnchor = toggles[Len(toggles)].anchor
    /\ (toggles # <<>> /\ tocEvent.type = "toggle")
          => showToc = toggles[Len(toggles)].after
    /\ Len(toggles) = 2 => toggles[2].from = toggles[1].anchor

\* Two presses of the same button, the visibility not changed in between.
PressedTwice ==
    /\ Len(toggles) = 2
    /\ toggles[1].anchor = toggles[2].anchor
    /\ toggles[2].before = toggles[1].after

\* C21 as stated: handleToggleToc(anchor) inverts the visibility when anchor
\* is the current anchor and opens the table of contents otherwise, the
\* anchor becomes the given one, and two presses of the same button restore
\* the visibility found by the first.
C21_ToggleTwiceRestores ==
    /\ ToggleStep
    /\ PressedTwice => toggles[2].after = toggles[1].before

\* C21, amended: as above, but two presses of the same button restore the
\* visibility found by the first only if the table of contents was closed
\* or already anchored at that button; pressed twice from the other button
\* while open, it stays open and then closes.
C21_ToggleTwice ==
    /\ ToggleStep
    /\ PressedTwice =>
          IF toggles[1].before /\ toggles[1].from # toggles[1].anchor
          THEN toggles[1].after /\ ~toggles[2].after
          ELSE toggles[2].after = toggles[1].before

\* C21 witness: the table of contents, open from the top button, has been
\* pressed twice from the footer button and is now closed.
C21_Witness ==
    /\ PressedTwice
    /\ toggles[1] = [anchor |-> "bottom", from |-> "top",
                     before |-> TRUE, after |-> TRUE]
    /\ tocEvent = [type |-> "toggle", detail |-> "bottom"]
    /\ ~showToc

(***************************************************************************)
(* The quote menu and a share still in flight.                             *)
(***************************************************************************)
\* C22: when an openUrl call resolves while the stored quote is another one
\* than the quote that call shares, the stored quote, its menu and the
\* browser selection stay as they are.
C22_ResolveKeepsNewerQuote ==
    [][(/\ pending # <<>>
        /\ lastEvent' = "resolved"
        /\ quoteText # <<>>
        /\ ComposeUrl(quoteText) # Head(pending))
          => /\ quoteText' = quoteText
             /\ showQuoteMenu' = showQuoteMenu
             /\ quoteMenuPosition' = quoteMenuPosition
             /\ selection' = selection]_vars

\* C23: the menu is shown exactly when a quote is stored, and exactly when
\* the menu position is set.
C23_MenuStateConsistent ==
    /\ showQuoteMenu <=> quoteText # <<>>
    /\ showQuoteMenu <=> quoteMenuPosition # Null

\* C23 witness: a share was rejected and the menu, the quote and the
\* position are all still there.
C23_Witness ==
    /\ lastEvent = "rejected"
    /\ showQuoteMenu
    /\ quoteText # <<>>
    /\ quoteMenuPosition = AtSelection
    /\ quoteWarning = FailedWarning

====
